---- MODULE Spec2Model ----
(***************************************************************************)
(* Recursive file search of Task1.py (search_file / _recursive_find),      *)
(* modelled as a state machine over an explicit call stack and a finite,   *)
(* read-only directory tree.                                               *)
(*                                                                         *)
(* Strings are sequences of one-character strings.  A path is the sequence *)
(* of its "/"-separated components; an absolute path starts with the       *)
(* component Slash.                                                        *)
(***************************************************************************)
EXTENDS Integers, Sequences, FiniteSets, TLC

VARIABLES fs, root_dir, target_name, is_case_sensitive,
          pc, stack, exc, error, result, warnings, returns

vars == <<fs, root_dir, target_name, is_case_sensitive,
          pc, stack, exc, error, result, warnings, returns>>

(* fs                  the directory tree, never written                    *)
(* root_dir, target_name, is_case_sensitive   the arguments of the call     *)
(* pc                  where search_file is: "exists" and "isdir" (the two  *)
(*                     checks), "call", "running", "returned", "raised"     *)
(* stack               the frames of _recursive_find, innermost last        *)
(* exc                 the class of the exception in flight, or None        *)
(* error               the class of the exception that left search_file     *)
(* result              the pair search_file returned                        *)
(* warnings            the lines printed: line of the print, directory      *)
(* returns             the pair returned by each frame so far (history)     *)

\* Largest number of entries beneath the root in the generated trees.
MaxNodes == 3

None == "None"
NoResult == <<>>
NoNode == -1

-----------------------------------------------------------------------------
(* str.lower *)

UpperCase == <<"A", "B", "C", "D", "E", "F", "G", "H", "I", "J", "K", "L", "M",
               "N", "O", "P", "Q", "R", "S", "T", "U", "V", "W", "X", "Y", "Z">>

LowerCase == <<"a", "b", "c", "d", "e", "f", "g", "h", "i", "j", "k", "l", "m",
               "n", "o", "p", "q", "r", "s", "t", "u", "v", "w", "x", "y", "z">>

lowerChar(c) ==
    IF \E i \in 1..Len(UpperCase) : UpperCase[i] = c
    THEN LowerCase[CHOOSE i \in 1..Len(UpperCase) : UpperCase[i] = c]
    ELSE c

lower(s) == [i \in 1..Len(s) |-> lowerChar(s[i])]

-----------------------------------------------------------------------------
(* os.path on component sequences *)

Slash == <<"/">>

isabs(p) == Len(p) > 0 /\ p[1] = Slash

join(a, b) == IF b = Slash THEN <<b>> ELSE Append(a, b)

\* b.startswith(a)
IsPrefix(a, b) == Len(a) <= Len(b) /\ SubSeq(b, 1, Len(a)) = a

Basename(p) == p[Len(p)]

-----------------------------------------------------------------------------
(* The directory tree.  fs[0] is whatever root_dir names; fs[n].parent is   *)
(* the directory holding entry n; entries are listed in increasing n.      *)

Ids == DOMAIN fs

\* the path of entry n as os.path.join builds it from root_dir
RECURSIVE PathOf(_)
PathOf(n) == IF n = 0 THEN root_dir ELSE join(PathOf(fs[n].parent), fs[n].name)

\* the entry a path names, NoNode when it names none
Resolve(p) ==
    LET c == {n \in Ids : PathOf(n) = p}
    IN  IF c = {} THEN NoNode ELSE CHOOSE n \in c : TRUE

exists(p) == Resolve(p) # NoNode /\ fs[Resolve(p)].kind # "missing"

isdir(p) == Resolve(p) # NoNode /\ fs[Resolve(p)].kind = "dir"

isfile(p) == Resolve(p) # NoNode /\ fs[Resolve(p)].kind = "file"

Children(d) ==
    SelectSeq([i \in 1..(Cardinality(Ids) - 1) |-> i], LAMBDA n : fs[n].parent = d)

\* "ok" when os.listdir succeeds, else the class of the exception it raises
listdirOutcome(p) ==
    IF Resolve(p) = NoNode THEN "OSError"
    ELSE IF fs[Resolve(p)].kind # "dir" THEN "OSError"
    ELSE fs[Resolve(p)].listing

listdir(p) ==
    LET ch == Children(Resolve(p))
    IN  [i \in 1..Len(ch) |-> fs[ch[i]].name]

-----------------------------------------------------------------------------
(* _recursive_find: the frame and its pieces *)

NewFrame(dir) ==
    [current_dir |-> dir, items |-> <<>>, idx |-> 1,
     located_paths |-> <<>>, file_count |-> 0, pc |-> "listdir"]

Top == stack[Len(stack)]

ReplaceTop(f) == [stack EXCEPT ![Len(stack)] = f]

search_target == IF ~is_case_sensitive THEN lower(target_name) ELSE target_name

\* slip: the entry name is compared as it is in either mode
item_nameAsIs(item) == item

item_name(item) == IF ~is_case_sensitive THEN lower(item) ELSE item

\* slip: item_name.startswith(search_target)
MatchesPrefix(item) == IsPrefix(search_target, item_name(item))

\* item_name == search_target
Matches(item) == item_name(item) = search_target

IsInstance(e, cls) == cls = "Exception" \/ cls = e

\* slip: the frame catches PermissionError alone
FrameHandlerPermissionOnly(e) ==
    IF IsInstance(e, "PermissionError") THEN 78 ELSE 0

\* slip: the frame has no try of its own
FrameHandlerNone(e) == 0

\* the except clauses of the try around the whole body: line of the print
FrameHandler(e) ==
    IF IsInstance(e, "PermissionError") THEN 78
    ELSE IF IsInstance(e, "Exception") THEN 80
    ELSE 0

\* the except clauses of the try around the recursive call
CallHandler(e) ==
    IF IsInstance(e, "PermissionError") THEN 72
    ELSE IF IsInstance(e, "Exception") THEN 75
    ELSE 0

\* slip: located_paths = nested_paths
MergeOverwrites(f, nested_paths, nested_count) ==
    [f EXCEPT !.located_paths = nested_paths,
              !.file_count = @ + nested_count,
              !.idx = @ + 1,
              !.pc = "loop"]

\* slip: the pair returned by the recursive call is dropped
MergeDropsNested(f, nested_paths, nested_count) ==
    [f EXCEPT !.idx = @ + 1, !.pc = "loop"]

\* located_paths.extend(nested_paths); file_count += nested_count
Merge(f, nested_paths, nested_count) ==
    [f EXCEPT !.located_paths = @ \o nested_paths,
              !.file_count = @ + nested_count,
              !.idx = @ + 1,
              !.pc = "loop"]

\* slip: file_count is not incremented
CollectWithoutCount(f, full_item_path) ==
    [f EXCEPT !.located_paths = Append(@, full_item_path),
              !.idx = @ + 1]

\* located_paths.append(full_item_path); file_count += 1
Collect(f, full_item_path) ==
    [f EXCEPT !.located_paths = Append(@, full_item_path),
              !.file_count = @ + 1,
              !.idx = @ + 1]

Skip(f) == [f EXCEPT !.idx = @ + 1]

-----------------------------------------------------------------------------
(* Actions *)

InLoop == /\ pc = "running"
          /\ exc = None
          /\ stack # <<>>
          /\ Top.pc = "loop"
          /\ Top.idx <= Len(Top.items)

CurItem == Top.items[Top.idx]

CurPath == join(Top.current_dir, CurItem)

CheckExists ==
    /\ pc = "exists"
    /\ IF ~exists(root_dir)
       THEN pc' = "raised" /\ error' = "FileNotFoundError"
       ELSE pc' = "isdir" /\ UNCHANGED error
    /\ UNCHANGED <<fs, root_dir, target_name, is_case_sensitive,
                   stack, exc, result, warnings, returns>>

\* slip: the os.path.isdir check is left out
CheckIsDirOmitted ==
    /\ pc = "isdir"
    /\ pc' = "call"
    /\ UNCHANGED <<fs, root_dir, target_name, is_case_sensitive,
                   stack, exc, error, result, warnings, returns>>

CheckIsDir ==
    /\ pc = "isdir"
    /\ IF ~isdir(root_dir)
       THEN pc' = "raised" /\ error' = "NotADirectoryError"
       ELSE pc' = "call" /\ UNCHANGED error
    /\ UNCHANGED <<fs, root_dir, target_name, is_case_sensitive,
                   stack, exc, result, warnings, returns>>

CallRoot ==
    /\ pc = "call"
    /\ pc' = "running"
    /\ stack' = <<NewFrame(root_dir)>>
    /\ UNCHANGED <<fs, root_dir, target_name, is_case_sensitive,
                   exc, error, result, warnings, returns>>

ListDir ==
    /\ pc = "running"
    /\ exc = None
    /\ stack # <<>>
    /\ Top.pc = "listdir"
    /\ IF listdirOutcome(Top.current_dir) = "ok"
       THEN /\ stack' = ReplaceTop([Top EXCEPT !.items = listdir(Top.current_dir),
                                               !.pc = "loop"])
            /\ UNCHANGED exc
       ELSE /\ exc' = listdirOutcome(Top.current_dir)
            /\ UNCHANGED stack
    /\ UNCHANGED <<fs, root_dir, target_name, is_case_sensitive,
                   pc, error, result, warnings, returns>>

VisitFile ==
    /\ InLoop
    /\ isfile(CurPath)
    /\ stack' = ReplaceTop(IF Matches(CurItem)
                           THEN Collect(Top, CurPath)
                           ELSE Skip(Top))
    /\ UNCHANGED <<fs, root_dir, target_name, is_case_sensitive,
                   pc, exc, error, result, warnings, returns>>

VisitDir ==
    /\ InLoop
    /\ ~isfile(CurPath)
    /\ isdir(CurPath)
    /\ stack' = Append(ReplaceTop([Top EXCEPT !.pc = "nested"]), NewFrame(CurPath))
    /\ UNCHANGED <<fs, root_dir, target_name, is_case_sensitive,
                   pc, exc, error, result, warnings, returns>>

VisitOther ==
    /\ InLoop
    /\ ~isfile(CurPath)
    /\ ~isdir(CurPath)
    /\ stack' = ReplaceTop(Skip(Top))
    /\ UNCHANGED <<fs, root_dir, target_name, is_case_sensitive,
                   pc, exc, error, result, warnings, returns>>

Return ==
    /\ pc = "running"
    /\ exc = None
    /\ stack # <<>>
    /\ \/ Top.pc = "handled"
       \/ Top.pc = "loop" /\ Top.idx > Len(Top.items)
    /\ returns' = Append(returns,
                          [dir |-> Top.current_dir, paths |-> Top.located_paths,
                           count |-> Top.file_count, failed |-> Top.pc = "handled"])
    /\ IF Len(stack) = 1
       THEN /\ result' = <<Top.located_paths, Top.file_count>>
            /\ pc' = "returned"
            /\ stack' = <<>>
       ELSE /\ stack' = [SubSeq(stack, 1, Len(stack) - 1)
                           EXCEPT ![Len(stack) - 1] =
                               Merge(@, Top.located_paths, Top.file_count)]
            /\ UNCHANGED <<pc, result>>
    /\ UNCHANGED <<fs, root_dir, target_name, is_case_sensitive,
                   exc, error, warnings>>

\* slip: one try around the loop of the caller, none around the recursive
\* call: a failed listing ends the loop of the directory that descended
ExceptUnwindsToCaller ==
    /\ pc = "running"
    /\ exc # None
    /\ stack # <<>>
    /\ LET rest == IF Len(stack) > 1 THEN SubSeq(stack, 1, Len(stack) - 1) ELSE stack
       IN  /\ warnings' = Append(warnings, [line |-> FrameHandler(exc),
                                             dir |-> rest[Len(rest)].current_dir])
           /\ stack' = [rest EXCEPT ![Len(rest)].pc = "handled"]
    /\ exc' = None
    /\ UNCHANGED <<fs, root_dir, target_name, is_case_sensitive,
                   pc, error, result, returns>>

\* An exception in flight is handled by the innermost enclosing except
\* clause that matches it, or leaves the frame; with no frame left it leaves
\* search_file.
Except ==
    /\ pc = "running"
    /\ exc # None
    /\ IF stack = <<>>
       THEN /\ pc' = "raised"
            /\ error' = exc
            /\ exc' = None
            /\ UNCHANGED <<stack, warnings>>
       ELSE IF Top.pc = "nested" /\ CallHandler(exc) # 0
       THEN /\ warnings' = Append(warnings, [line |-> CallHandler(exc), dir |-> CurPath])
            /\ stack' = ReplaceTop([Skip(Top) EXCEPT !.pc = "loop"])
            /\ exc' = None
            /\ UNCHANGED <<pc, error>>
       ELSE IF FrameHandler(exc) # 0
       THEN /\ warnings' = Append(warnings, [line |-> FrameHandler(exc),
                                             dir |-> Top.current_dir])
            /\ stack' = ReplaceTop([Top EXCEPT !.pc = "handled"])
            /\ exc' = None
            /\ UNCHANGED <<pc, error>>
       ELSE /\ stack' = SubSeq(stack, 1, Len(stack) - 1)
            /\ UNCHANGED <<pc, error, exc, warnings>>
    /\ UNCHANGED <<fs, root_dir, target_name, is_case_sensitive, result, returns>>

-----------------------------------------------------------------------------
(* Initial states: a call search_file(root_dir, target_name,               *)
(* is_case_sensitive) about to start on some directory tree.               *)

Node(name, kind, listing, parent) ==
    [name |-> name, kind |-> kind, listing |-> listing, parent |-> parent]

F1 == <<"F", "1">>

Names == {F1, <<"f", "2">>}

Targets == {<<>>, F1, lower(F1)}

ListingErrors == {"PermissionError", "OSError"}

EntryKinds == {<<"file", "ok">>, <<"other", "ok">>, <<"dir", "ok">>}
                \cup {<<"dir", l>> : l \in ListingErrors}

\* entry k goes into a directory, not before the directory of entry k-1,
\* under a name none of its siblings has
CanHold(t, k, q, nm) ==
    /\ t[q].kind = "dir"
    /\ k > 1 => q >= t[k - 1].parent
    /\ \A n \in 1..(k - 1) : t[n].parent = q => t[n].name # nm

Extensions(t, k) ==
    {Node(x[1], x[2][1], x[2][2], x[3]) :
        x \in {y \in Names \X EntryKinds \X (0..(k - 1)) : CanHold(t, k, y[3], y[1])}}

RECURSIVE Trees(_)
Trees(k) ==
    IF k = 0
    THEN {(0 :> Node(<<>>, "dir", "ok", NoNode))}
    ELSE UNION {{t @@ (k :> e) : e \in Extensions(t, k)} : t \in Trees(k - 1)}

\* roots that fail the precondition checks, or pass them and cannot be listed
OddRoots ==
    {(0 :> Node(<<>>, "missing", "ok", NoNode)),
     (0 :> Node(<<>>, "file", "ok", NoNode))}
      \cup {(0 :> Node(<<>>, "dir", l, NoNode)) @@ (1 :> Node(F1, "file", "ok", 0)) :
              l \in ListingErrors}

GeneratedTrees == UNION {Trees(k) : k \in 0..MaxNodes} \cup OddRoots

RootDirs == {<<Slash, <<"r">>>>, <<<<"r">>>>}

(* The trees of TestTask1.py *)

Txt(stem) == stem \o <<".", "t", "x", "t">>

Folder(n) == <<"f", "o", "l", "d", "e", "r", n>>

file1 == Txt(<<"f", "i", "l", "e", "1">>)

FILE1 == Txt(<<"F", "I", "L", "E", "1">>)

file2 == Txt(<<"f", "i", "l", "e", "2">>)

file3 == Txt(<<"f", "i", "l", "e", "3">>)

empty_folder == <<"e", "m", "p", "t", "y", "_">> \o Folder("")

hidden_folder == <<".", "h", "i", "d", "d", "e", "n", "_">> \o Folder("")

restricted_folder == <<"r", "e", "s", "t", "r", "i", "c", "t", "e", "d", "_">> \o Folder("")

base_dir == <<Slash, <<"t", "m", "p">>, <<"t", "m", "p", "x">>>>

TreeOf(entries) ==
    [i \in 0..Len(entries) |->
        IF i = 0 THEN Node(<<>>, "dir", "ok", NoNode) ELSE entries[i]]

File(name, parent) == Node(name, "file", "ok", parent)

Dir(name, parent) == Node(name, "dir", "ok", parent)

\* setUp
SampleEntries ==
    << File(file1, 0),            \*  1  file1.txt
       File(FILE1, 0),            \*  2  FILE1.txt
       Dir(empty_folder, 0),      \*  3  empty_folder/
       Dir(Folder("1"), 0),       \*  4  folder1/
       Dir(Folder("4"), 0),       \*  5  folder4/
       File(file2, 4),            \*  6  folder1/file2.txt
       Dir(Folder("2"), 4),       \*  7  folder1/folder2/
       File(file1, 5),            \*  8  folder4/file1.txt
       Dir(Folder("5"), 5),       \*  9  folder4/folder5/
       File(file3, 7),            \* 10  folder1/folder2/file3.txt
       Dir(Folder("3"), 7),       \* 11  folder1/folder2/folder3/
       File(file2, 9),            \* 12  folder4/folder5/file2.txt
       Dir(hidden_folder, 9),     \* 13  folder4/folder5/.hidden_folder/
       File(file1, 11),           \* 14  folder1/folder2/folder3/file1.txt
       File(file1, 13) >>         \* 15  folder4/folder5/.hidden_folder/file1.txt

SampleTree == TreeOf(SampleEntries)

\* test_permission_issues: restricted_folder/file1.txt, then chmod 000
RestrictedTree ==
    TreeOf(SampleEntries \o
           << Node(restricted_folder, "dir", "PermissionError", 0),
              File(file1, 16) >>)

\* the four files of the search scenario, and the directories holding them
FourFileTree ==
    TreeOf(<< File(file1, 0),         \* 1  file1.txt
              File(FILE1, 0),         \* 2  FILE1.txt
              Dir(Folder("1"), 0),    \* 3  folder1/
              Dir(Folder("4"), 0),    \* 4  folder4/
              Dir(Folder("2"), 3),    \* 5  folder1/folder2/
              File(file1, 4),         \* 6  folder4/file1.txt
              Dir(Folder("3"), 5),    \* 7  folder1/folder2/folder3/
              File(file1, 7) >>)      \* 8  folder1/folder2/folder3/file1.txt

TestTrees == {SampleTree, RestrictedTree, FourFileTree}

TestTargets == {file1, file3, <<>>}

InitCall ==
    /\ pc = "exists"
    /\ stack = <<>>
    /\ exc = None
    /\ error = None
    /\ result = NoResult
    /\ warnings = <<>>
    /\ returns = <<>>

Init ==
    /\ \/ /\ fs \in GeneratedTrees
          /\ root_dir \in RootDirs
          /\ target_name \in Targets
       \/ /\ fs \in TestTrees
          /\ root_dir = base_dir
          /\ target_name \in TestTargets
    /\ is_case_sensitive \in BOOLEAN
    /\ InitCall

Next ==
    \/ CheckExists
    \/ CheckIsDir
    \/ CallRoot
    \/ ListDir
    \/ VisitFile
    \/ VisitDir
    \/ VisitOther
    \/ Return
    \/ Except

Spec == Init /\ [][Next]_vars

\* A sequential program takes its next step whenever it has one.
MaxLiveNodes == 2

LiveInit ==
    /\ \/ /\ fs \in UNION {Trees(k) : k \in 0..MaxLiveNodes} \cup OddRoots
          /\ root_dir \in RootDirs
          /\ target_name \in Targets
       \/ /\ fs \in TestTrees
          /\ root_dir = base_dir
          /\ target_name \in TestTargets
    /\ is_case_sensitive \in BOOLEAN
    /\ InitCall

LiveSpec == LiveInit /\ [][Next]_vars /\ WF_vars(Next)

-----------------------------------------------------------------------------
(* What a search is expected to find, read off the tree alone *)

Done == pc = "returned"

ResultPaths == result[1]

ResultCount == result[2]

Range(s) == {s[i] : i \in DOMAIN s}

Entries == Ids \ {0}

\* every directory from root_dir down to the one holding n can be listed
RECURSIVE Reached(_)
Reached(n) ==
    IF n = 0 THEN fs[0].kind = "dir"
    ELSE /\ fs[fs[n].parent].kind = "dir"
         /\ fs[fs[n].parent].listing = "ok"
         /\ Reached(fs[n].parent)

RECURSIVE Under(_, _)
Under(n, d) == n # 0 /\ (fs[n].parent = d \/ Under(fs[n].parent, d))

NameMatches(nm) ==
    IF is_case_sensitive THEN nm = target_name ELSE lower(nm) = lower(target_name)

ReachedFiles == {n \in Entries : fs[n].kind = "file" /\ Reached(n)}

Expected == {n \in ReachedFiles : NameMatches(fs[n].name)}

\* directories whose listing is attempted and fails
FailedDirs == {d \in Ids : fs[d].kind = "dir" /\ fs[d].listing # "ok" /\ Reached(d)}

WarningsAbout(p) == Cardinality({i \in DOMAIN warnings : warnings[i].dir = p})

-----------------------------------------------------------------------------
(* Claims *)

\* C1: the result holds exactly one path for each file that matches the target
\* and lies beneath root_dir through listable directories, and nothing else:
\* no match is missed at any depth, none is merged with a namesake, and no
\* directory or other non-file entry is reported.
C1_ExactlyTheMatches ==
    Done => /\ Range(ResultPaths) = {PathOf(n) : n \in Expected}
            /\ Len(ResultPaths) = Cardinality(Expected)

\* two namesakes in different directories, both found
C1_Witness ==
    /\ Done
    /\ \E m, n \in Expected :
          /\ m # n
          /\ fs[m].name = fs[n].name
          /\ fs[m].parent # fs[n].parent
          /\ PathOf(m) \in Range(ResultPaths)
          /\ PathOf(n) \in Range(ResultPaths)

\* C2: the count returned by every frame of _recursive_find, a frame whose
\* directory could not be listed included, is the length of the list it
\* returns, and so is the count of the final result.
C2_CountIsLength ==
    /\ \A i \in DOMAIN returns : returns[i].count = Len(returns[i].paths)
    /\ Done => ResultCount = Len(ResultPaths)

\* a nested frame has handed matches up, another frame has failed
C2_Witness ==
    /\ Done
    /\ ResultCount >= 2
    /\ warnings # <<>>
    /\ \E i \in DOMAIN ResultPaths : Len(ResultPaths[i]) > Len(root_dir) + 1

\* C3: a missing root raises FileNotFoundError and a root that is a file
\* raises NotADirectoryError, before any frame exists: nothing is listed, no
\* warning is printed and no result is returned.
C3_FatalRoot ==
    /\ (fs[0].kind = "missing" /\ pc # "exists")
          => (pc = "raised" /\ error = "FileNotFoundError")
    /\ (fs[0].kind = "file" /\ pc \notin {"exists", "isdir"})
          => (pc = "raised" /\ error = "NotADirectoryError")
    /\ fs[0].kind # "dir"
          => /\ stack = <<>>
             /\ exc = None
             /\ warnings = <<>>
             /\ result = NoResult
             /\ returns = <<>>

C3_Witness == pc = "raised" /\ fs[0].kind = "file" /\ error = "NotADirectoryError"

C5_CaseFolding ==
    Done => /\ \A n \in ReachedFiles :
                  PathOf(n) \in Range(ResultPaths)
                     <=> IF is_case_sensitive
                         THEN fs[n].name = target_name
                         ELSE lower(fs[n].name) = lower(target_name)
            /\ \A i \in DOMAIN ResultPaths :
                  lower(Basename(ResultPaths[i])) = lower(target_name)

\* a case-insensitive search reports a name that differs from the target
C5_Witness ==
    /\ Done
    /\ ~is_case_sensitive
    /\ \E i \in DOMAIN ResultPaths : Basename(ResultPaths[i]) # target_name

\* C6: every returned path is absolute, whatever root_dir was passed.
C6_AllPathsAbsolute ==
    Done => \A i \in DOMAIN ResultPaths : isabs(ResultPaths[i])

\* C7, as stated: on the tree of file1.txt, FILE1.txt,
\* folder1/folder2/folder3/file1.txt and folder4/file1.txt, the search for
\* file1.txt returns 4 paths case-sensitively and 5 case-insensitively.
C7_AsStated ==
    (Done /\ fs = FourFileTree /\ target_name = file1)
       => /\ ResultCount = IF is_case_sensitive THEN 4 ELSE 5
          /\ Len(ResultPaths) = ResultCount

HasFILE1 == \E i \in DOMAIN ResultPaths : Basename(ResultPaths[i]) = FILE1

\* C7, amended: on that tree the search for file1.txt returns 3 paths
\* case-sensitively (FILE1.txt excluded) and 4 case-insensitively (FILE1.txt
\* included); 4 and 5 are the counts on the tree of the tests, which also
\* holds folder4/folder5/.hidden_folder/file1.txt.
C7_Amended ==
    (Done /\ target_name = file1)
       => /\ fs = FourFileTree
               => /\ ResultCount = IF is_case_sensitive THEN 3 ELSE 4
                  /\ Len(ResultPaths) = ResultCount
                  /\ HasFILE1 <=> ~is_case_sensitive
          /\ fs = SampleTree
               => /\ ResultCount = IF is_case_sensitive THEN 4 ELSE 5
                  /\ Len(ResultPaths) = ResultCount
                  /\ HasFILE1 <=> ~is_case_sensitive

C7_Witness ==
    /\ Done
    /\ fs = FourFileTree
    /\ target_name = file1
    /\ ~is_case_sensitive
    /\ HasFILE1

\* C8: with an empty target the search of an existing directory returns
\* ([], 0) in either mode and raises nothing.
C8_EmptyTarget ==
    (target_name = <<>> /\ fs[0].kind = "dir")
       => /\ pc # "raised"
          /\ Done => result = << <<>>, 0 >>

\* an empty-target search that has walked past files
C8_Witness ==
    /\ Done
    /\ target_name = <<>>
    /\ Cardinality(ReachedFiles) >= 2

====
